---- MODULE Spec2Model ----
(***************************************************************************)
(* AtomHash: two insert-only concurrent hash tables keyed by usize.        *)
(*   atom_hash       separate chaining, per-bucket atomic linked lists     *)
(*   atomic_hashmap  open addressing, linear probing over a permutation    *)
(* Every atomic load, compare_exchange and fetch_add of the source is one  *)
(* step of the calling thread; thread-local work (allocation, the read of  *)
(* an immutable key or value, index arithmetic) is folded into the step of *)
(* the shared access that follows or precedes it.  Memory is modelled as   *)
(* sequentially consistent.                                                *)
(***************************************************************************)
EXTENDS Integers, Sequences, FiniteSets, TLC

\* const N: usize, the capacity of a table (the tests use 8 and larger powers of two)
N == 4

\* bounds of the model
NumThreads == 2
MaxAllocs == 4
MaxChain == 3

Threads == 1..NumThreads

\* one key of the first bucket and MaxChain keys that collide in the last bucket
Keys == {0} \cup {N - 1 + N * j : j \in 0..(MaxChain - 1)}

\* let empty: *mut Entry<V> = 0 as *mut Entry<V>
empty == 0

VARIABLES
    buckets,      \* buckets[i]: pointer stored in bucket i (0 = null)
    entries,      \* AtomicUsize entries
    collisions,   \* AtomicUsize collisions (chaining variant)
    permutation,  \* permutation table (open-addressing variant)
    heap,         \* heap[p]: the Entry allocated p-th: [key, val, next]
    freed,        \* pointers whose Box has been dropped
    pc,           \* pc[t]: the next shared access of thread t ("idle" between calls)
    loc,          \* loc[t]: the locals of the call thread t is running
    res,          \* res[t]: what the last completed call of t returned
    okRet,        \* history: pointers whose insert call has returned Ok
    gh            \* history of the current/last call of each thread

vars == <<buckets, entries, collisions, permutation, heap, freed, pc, loc, res, okRet, gh>>

\* the const N of the table at hand: the number of its buckets
Capacity == Cardinality(DOMAIN buckets)

------------------------------------------------------------------------------
\* usize bitwise AND
RECURSIVE BitAnd(_, _)
BitAnd(a, b) ==
    IF a = 0 \/ b = 0 THEN 0
    ELSE (a % 2) * (b % 2) + 2 * BitAnd(a \div 2, b \div 2)

\* results of the public operations
NoRes == [kind |-> "none", val |-> 0]
Ok(p) == [kind |-> "Ok", val |-> heap[p].val]
ExistentEntryOfHead(p) ==
    [kind |-> "ExistentEntry", val |-> heap[buckets[BitAnd(heap[p].key, N - 1)]].val]
ExistentEntry(p) == [kind |-> "ExistentEntry", val |-> heap[p].val]
HashMapFull == [kind |-> "HashMapFull", val |-> 0]
Some(p) == [kind |-> "Some", val |-> heap[p].val]
None == [kind |-> "None", val |-> 0]

\* the locals of a thread that runs no call
NoLoc == [op |-> "none", key |-> 0, new_entry_ptr |-> 0, cur_entry_ptr |-> 0,
          cur_entry |-> 0, start_idx |-> 0, idx |-> 0,
          current_bucket |-> 0, current_entry |-> 0, yielded |-> <<>>]

\* Box::new(Entry { key, val: value, next: null }): the value of each call is a
\* fresh token (the code never inspects values, so distinct values lose nothing)
NewEntry(key) == [key |-> key, val |-> Len(heap) + 1, next |-> empty]

\* the entries of a bucket's chain, head first
RECURSIVE Chain(_)
Chain(p) == IF p = empty THEN <<>> ELSE <<p>> \o Chain(heap[p].next)

Range(s) == {s[i] : i \in DOMAIN s}

\* the entries reachable from the bucket array
Reachable == UNION {Range(Chain(buckets[i])) : i \in 0..(Capacity - 1)}

\* what a call can change of the table
TableView == <<buckets, entries, collisions, permutation,
               [p \in Reachable |-> heap[p].next]>>

\* no call is in flight ("ret": a call has returned, its result is in res)
Quiescent == \A t \in Threads : pc[t] \in {"idle", "ret"}

\* values for which an insert of key has already returned Ok
OkVals(key) == {heap[p].val : p \in {q \in okRet : heap[q].key = key}}

------------------------------------------------------------------------------
\* History of the current (or, in "ret", the returned) call of a thread:
\* the operation and its key, whether no other thread took a step while it ran,
\* whether one of its steps changed the table, and what held when it started:
\* the values already inserted with Ok for its key, whether its key was in the
\* table, whether N inserts had returned Ok and whether a bucket was empty.
NoGh == [op |-> "none", key |-> 0, solo |-> TRUE, dirty |-> FALSE,
         expect |-> {}, present |-> FALSE, okFull |-> FALSE, hadEmpty |-> TRUE]

\* Thread t takes a step; op and key are recorded when the step starts a call.
\* A return and the caller's receipt of the result are one event: while a
\* thread is in "ret" the only step is its Return.
Track(t, op, key) ==
    /\ \A u \in Threads : pc[u] # "ret"
    /\ gh' = [u \in Threads |->
             IF u = t
             THEN IF pc[t] = "idle"
                  THEN [op       |-> op,
                        key      |-> key,
                        solo     |-> \A w \in Threads \ {t} : pc[w] = "idle",
                        dirty    |-> TableView' # TableView,
                        expect   |-> OkVals(key),
                        present  |-> \E p \in Reachable : heap[p].key = key,
                        okFull   |-> Cardinality(okRet) >= Capacity,
                        hadEmpty |-> \E i \in 0..(Capacity - 1) : buckets[i] = empty]
                  ELSE IF pc'[t] = "idle"
                       THEN NoGh
                       ELSE [gh[t] EXCEPT !.dirty = @ \/ TableView' # TableView]
             ELSE IF pc[u] = "idle" THEN gh[u] ELSE [gh[u] EXCEPT !.solo = FALSE]]

\* the caller has the result of the call that returned
Return(t) ==
    /\ pc[t] = "ret"
    /\ pc' = [pc EXCEPT ![t] = "idle"]
    /\ res' = [res EXCEPT ![t] = NoRes]
    /\ gh' = [gh EXCEPT ![t] = NoGh]
    /\ UNCHANGED <<buckets, entries, collisions, permutation, heap, freed, loc, okRet>>

\* a key for the calls that take none
NoKey == 0 - 1

------------------------------------------------------------------------------
\* Chaining variant (atom_hash)

\* key & (N - 1)
ChGetIdx(key) == BitAnd(key, Capacity - 1)

\* Faulty variant: the Box of the entry found is dropped instead of the new one
ChRejectFreesFound(t, new, found) ==
    /\ freed' = freed \cup {found}
    /\ res' = [res EXCEPT ![t] = ExistentEntry(found)]
    /\ pc' = [pc EXCEPT ![t] = "ret"]
    /\ loc' = [loc EXCEPT ![t] = NoLoc]

\* drop(Box::from_raw(new_entry_ptr)); return Err(ExistentEntry(&cur_entry.val))
ChReject(t, new, found) ==
    /\ freed' = freed \cup {new}
    /\ res' = [res EXCEPT ![t] = ExistentEntry(found)]
    /\ pc' = [pc EXCEPT ![t] = "ret"]
    /\ loc' = [loc EXCEPT ![t] = NoLoc]

\* Faulty variant: a chain that already has a second node takes no further entry
ChWalkGiveUp(t, key, next_entry_ptr) ==
    IF next_entry_ptr # empty /\ heap[next_entry_ptr].key = key
    THEN ChReject(t, loc[t].new_entry_ptr, next_entry_ptr)
    ELSE /\ freed' = freed \cup {loc[t].new_entry_ptr}
         /\ res' = [res EXCEPT ![t] = HashMapFull]
         /\ pc' = [pc EXCEPT ![t] = "ret"]
         /\ loc' = [loc EXCEPT ![t] = NoLoc]

\* the while loop of insert after next_entry_ptr has been loaded: advance to the
\* next node and compare its key, or leave the loop at a null link
ChWalk(t, key, next_entry_ptr) ==
    IF next_entry_ptr # empty
    THEN IF heap[next_entry_ptr].key = key
         THEN ChReject(t, loc[t].new_entry_ptr, next_entry_ptr)
         ELSE /\ loc' = [loc EXCEPT ![t].cur_entry_ptr = next_entry_ptr]
              /\ pc' = [pc EXCEPT ![t] = "load_inner"]
              /\ UNCHANGED <<freed, res>>
    ELSE /\ pc' = [pc EXCEPT ![t] = "cas_next"]
         /\ UNCHANGED <<loc, freed, res>>

\* insert, up to the compare_exchange on the bucket and the test of the head's key
ChInsertCall(t, key) ==
    /\ pc[t] = "idle"
    /\ LET new == Len(heap) + 1
           idx == ChGetIdx(key)
           cur == buckets[idx]
           l   == [NoLoc EXCEPT !.op = "insert", !.key = key, !.new_entry_ptr = new]
       IN  /\ heap' = Append(heap, NewEntry(key))
           /\ IF cur = empty
              THEN /\ buckets' = [buckets EXCEPT ![idx] = new]
                   /\ loc' = [loc EXCEPT ![t] = l]
                   /\ pc' = [pc EXCEPT ![t] = "inc_head"]
                   /\ res' = [res EXCEPT ![t] = NoRes]
                   /\ UNCHANGED freed
              ELSE /\ UNCHANGED buckets
                   /\ IF heap[cur].key = key
                      THEN ChReject(t, new, cur)
                      ELSE /\ loc' = [loc EXCEPT ![t] = [l EXCEPT !.cur_entry_ptr = cur]]
                           /\ pc' = [pc EXCEPT ![t] = "load_next"]
                           /\ res' = [res EXCEPT ![t] = NoRes]
                           /\ UNCHANGED freed
    /\ UNCHANGED <<entries, collisions, permutation, okRet>>
    /\ Track(t, "insert", key)

\* a call of insert, while the bound on the calls allows one
ChInsert(t, key) ==
    /\ Len(heap) < MaxAllocs
    /\ ChInsertCall(t, key)

\* bounds of the calls that fill the table beyond its capacity: inserts past
\* MaxAllocs start one at a time, and FillExtra further keys share the first bucket
FillAllocs == 6
FillExtra == 2
FillKeys == Keys \cup {N * j : j \in 1..FillExtra}

\* a call of insert of the filling run
ChInsertFill(t, key) ==
    /\ \/ Len(heap) < MaxAllocs
       \/ Len(heap) < FillAllocs /\ \A u \in Threads : pc[u] = "idle"
    /\ ChInsertCall(t, key)

\* self.entries.fetch_add(1); return Ok(&(*new_entry_ptr).val)   (bucket head)
ChIncHead(t) ==
    /\ pc[t] = "inc_head"
    /\ entries' = entries + 1
    /\ res' = [res EXCEPT ![t] = Ok(loc[t].new_entry_ptr)]
    /\ okRet' = okRet \cup {loc[t].new_entry_ptr}
    /\ pc' = [pc EXCEPT ![t] = "ret"]
    /\ loc' = [loc EXCEPT ![t] = NoLoc]
    /\ UNCHANGED <<buckets, collisions, permutation, heap, freed>>
    /\ Track(t, "insert", NoKey)

\* top of the loop: cur_entry = &*cur_entry_ptr; next_entry_ptr = cur_entry.next.load()
ChLoadNext(t) ==
    /\ pc[t] = "load_next"
    /\ LET cur == loc[t].cur_entry_ptr
           nxt == heap[cur].next
       IN  IF nxt # empty
           THEN IF heap[nxt].key = loc[t].key
                THEN ChReject(t, loc[t].new_entry_ptr, nxt)
                ELSE /\ loc' = [loc EXCEPT ![t].cur_entry = cur, ![t].cur_entry_ptr = nxt]
                     /\ pc' = [pc EXCEPT ![t] = "load_inner"]
                     /\ UNCHANGED <<freed, res>>
           ELSE /\ loc' = [loc EXCEPT ![t].cur_entry = cur]
                /\ pc' = [pc EXCEPT ![t] = "cas_next"]
                /\ UNCHANGED <<freed, res>>
    /\ UNCHANGED <<buckets, entries, collisions, permutation, heap, okRet>>
    /\ Track(t, "insert", NoKey)

\* inside the while loop: next_entry_ptr = cur_entry.next.load() of the node just compared
ChLoadInner(t) ==
    /\ pc[t] = "load_inner"
    /\ ChWalk(t, loc[t].key, heap[loc[t].cur_entry_ptr].next)
    /\ UNCHANGED <<buckets, entries, collisions, permutation, heap, okRet>>
    /\ Track(t, "insert", NoKey)

\* the node whose next field the linking compare_exchange is applied to: the
\* cur_entry bound at the top of the loop (the binding inside the while loop
\* shadows it only within the while body)
ChCasTarget(t) == loc[t].cur_entry

\* Faulty variant: the link is stored without comparing it with null
ChCasNextStore(t) ==
    /\ pc[t] = "cas_next"
    /\ heap' = [heap EXCEPT ![ChCasTarget(t)].next = loc[t].new_entry_ptr]
    /\ pc' = [pc EXCEPT ![t] = "inc_tail"]
    /\ UNCHANGED <<buckets, entries, collisions, permutation, freed, loc, res, okRet>>
    /\ Track(t, "insert", NoKey)

\* cur_entry.next.compare_exchange(empty, new_entry_ptr)
ChCasNext(t) ==
    /\ pc[t] = "cas_next"
    /\ LET tgt == ChCasTarget(t)
       IN  IF heap[tgt].next = empty
           THEN /\ heap' = [heap EXCEPT ![tgt].next = loc[t].new_entry_ptr]
                /\ pc' = [pc EXCEPT ![t] = "inc_tail"]
           ELSE /\ pc' = [pc EXCEPT ![t] = "load_next"]
                /\ UNCHANGED heap
    /\ UNCHANGED <<buckets, entries, collisions, permutation, freed, loc, res, okRet>>
    /\ Track(t, "insert", NoKey)

\* Faulty variant: the chained entry is not counted
ChIncTailSkip(t) ==
    /\ pc[t] = "inc_tail"
    /\ pc' = [pc EXCEPT ![t] = "inc_coll"]
    /\ UNCHANGED <<buckets, entries, collisions, permutation, heap, freed, loc, res, okRet>>
    /\ Track(t, "insert", NoKey)

\* self.entries.fetch_add(1)   (chained entry)
ChIncTail(t) ==
    /\ pc[t] = "inc_tail"
    /\ entries' = entries + 1
    /\ pc' = [pc EXCEPT ![t] = "inc_coll"]
    /\ UNCHANGED <<buckets, collisions, permutation, heap, freed, loc, res, okRet>>
    /\ Track(t, "insert", NoKey)

\* Faulty variant: the chained entry is not counted as a collision
ChIncCollSkip(t) ==
    /\ pc[t] = "inc_coll"
    /\ res' = [res EXCEPT ![t] = Ok(loc[t].new_entry_ptr)]
    /\ okRet' = okRet \cup {loc[t].new_entry_ptr}
    /\ pc' = [pc EXCEPT ![t] = "ret"]
    /\ loc' = [loc EXCEPT ![t] = NoLoc]
    /\ UNCHANGED <<buckets, entries, collisions, permutation, heap, freed>>
    /\ Track(t, "insert", NoKey)

\* self.collisions.fetch_add(1); return Ok(&(*new_entry_ptr).val)
ChIncColl(t) ==
    /\ pc[t] = "inc_coll"
    /\ collisions' = collisions + 1
    /\ res' = [res EXCEPT ![t] = Ok(loc[t].new_entry_ptr)]
    /\ okRet' = okRet \cup {loc[t].new_entry_ptr}
    /\ pc' = [pc EXCEPT ![t] = "ret"]
    /\ loc' = [loc EXCEPT ![t] = NoLoc]
    /\ UNCHANGED <<buckets, entries, permutation, heap, freed>>
    /\ Track(t, "insert", NoKey)

\* Faulty variant: lookup takes the first node it loads, whatever its key
ChLookupAtAny(t, key, entry_ptr) ==
    /\ res' = [res EXCEPT ![t] = IF entry_ptr # empty THEN Some(entry_ptr) ELSE None]
    /\ pc' = [pc EXCEPT ![t] = "ret"]
    /\ loc' = [loc EXCEPT ![t] = NoLoc]

\* Faulty variant: lookup gives up at the first node whose key differs
ChLookupAtHead(t, key, entry_ptr) ==
    /\ res' = [res EXCEPT ![t] = IF entry_ptr # empty /\ heap[entry_ptr].key = key
                                 THEN Some(entry_ptr) ELSE None]
    /\ pc' = [pc EXCEPT ![t] = "ret"]
    /\ loc' = [loc EXCEPT ![t] = NoLoc]

\* lookup after a pointer has been loaded: null is None, a matching key is Some,
\* any other node is walked past
ChLookupAt(t, key, entry_ptr) ==
    IF entry_ptr = empty
    THEN /\ res' = [res EXCEPT ![t] = None]
         /\ pc' = [pc EXCEPT ![t] = "ret"]
         /\ loc' = [loc EXCEPT ![t] = NoLoc]
    ELSE IF heap[entry_ptr].key = key
         THEN /\ res' = [res EXCEPT ![t] = Some(entry_ptr)]
              /\ pc' = [pc EXCEPT ![t] = "ret"]
              /\ loc' = [loc EXCEPT ![t] = NoLoc]
         ELSE /\ res' = [res EXCEPT ![t] = NoRes]
              /\ pc' = [pc EXCEPT ![t] = "lk_next"]
              /\ loc' = [loc EXCEPT ![t] = [NoLoc EXCEPT !.op = "lookup", !.key = key,
                                                          !.cur_entry = entry_ptr]]

\* lookup: bucket.load() and the test of the head
ChLookup(t, key) ==
    /\ pc[t] = "idle"
    /\ ChLookupAt(t, key, buckets[ChGetIdx(key)])
    /\ UNCHANGED <<buckets, entries, collisions, permutation, heap, freed, okRet>>
    /\ Track(t, "lookup", key)

\* Faulty variant: at the end of the chain the walk starts over at the head
ChLookupNextAgain(t) ==
    /\ pc[t] = "lk_next"
    /\ ChLookupAt(t, loc[t].key, IF heap[loc[t].cur_entry].next = empty
                                 THEN buckets[ChGetIdx(loc[t].key)]
                                 ELSE heap[loc[t].cur_entry].next)
    /\ UNCHANGED <<buckets, entries, collisions, permutation, heap, freed, okRet>>
    /\ Track(t, "lookup", NoKey)

\* lookup: cur_entry.next.load() and the test of the node it points to
ChLookupNext(t) ==
    /\ pc[t] = "lk_next"
    /\ ChLookupAt(t, loc[t].key, heap[loc[t].cur_entry].next)
    /\ UNCHANGED <<buckets, entries, collisions, permutation, heap, freed, okRet>>
    /\ Track(t, "lookup", NoKey)

------------------------------------------------------------------------------
\* Iter (chaining variant).  loc[t].yielded lists the entries the iterator has
\* produced so far, in order; current_entry = 0 is None.

\* HashMap::iter
ChIter(t) ==
    /\ pc[t] = "idle"
    /\ pc' = [pc EXCEPT ![t] = "it_next"]
    /\ loc' = [loc EXCEPT ![t] = [NoLoc EXCEPT !.op = "iter"]]
    /\ res' = [res EXCEPT ![t] = NoRes]
    /\ UNCHANGED <<buckets, entries, collisions, permutation, heap, freed, okRet>>
    /\ Track(t, "iter", NoKey)

\* return Some((&entry.key, &entry.val)) with current_entry = entry
IterYield(t, l, entry) ==
    /\ loc' = [loc EXCEPT ![t] = [l EXCEPT !.current_entry = entry,
                                           !.yielded = Append(@, entry)]]
    /\ res' = [res EXCEPT ![t] = Some(entry)]
    /\ pc' = [pc EXCEPT ![t] = "it_next"]

\* the loop condition of Iter::next
IterInLoop(t) == loc[t].current_bucket < Capacity

\* next(), current_entry is Some: entry.next.load(); a non-null link is yielded,
\* a null link ends the chain and the call goes on to the next bucket
IterNextChain(t) ==
    /\ pc[t] = "it_next"
    /\ IterInLoop(t)
    /\ loc[t].current_entry # 0
    /\ LET next_ptr == heap[loc[t].current_entry].next
       IN  IF next_ptr # empty
           THEN IterYield(t, loc[t], next_ptr)
           ELSE /\ loc' = [loc EXCEPT ![t].current_entry = 0]
                /\ pc' = [pc EXCEPT ![t] = "it_bucket"]
                /\ res' = [res EXCEPT ![t] = NoRes]
    /\ UNCHANGED <<buckets, entries, collisions, permutation, heap, freed, okRet>>
    /\ Track(t, "iter", NoKey)

\* Faulty variant: current_bucket is not advanced when the bucket has a head
IterNextBucketStay(t) ==
    /\ \/ pc[t] = "it_bucket"
       \/ pc[t] = "it_next" /\ IterInLoop(t) /\ loc[t].current_entry = 0
    /\ LET bucket_ptr == buckets[loc[t].current_bucket]
       IN  IF bucket_ptr # empty
           THEN IterYield(t, loc[t], bucket_ptr)
           ELSE /\ loc' = [loc EXCEPT ![t].current_bucket = @ + 1]
                /\ pc' = [pc EXCEPT ![t] = "it_next"]
                /\ res' = [res EXCEPT ![t] = NoRes]
    /\ UNCHANGED <<buckets, entries, collisions, permutation, heap, freed, okRet>>
    /\ Track(t, "iter", NoKey)

\* next(), move to the next bucket: buckets[current_bucket].load();
\* current_bucket += 1; a non-null head is yielded, otherwise the loop goes round
IterNextBucket(t) ==
    /\ \/ pc[t] = "it_bucket"
       \/ pc[t] = "it_next" /\ IterInLoop(t) /\ loc[t].current_entry = 0
    /\ LET bucket_ptr == buckets[loc[t].current_bucket]
           l == [loc[t] EXCEPT !.current_bucket = @ + 1]
       IN  IF bucket_ptr # empty
           THEN IterYield(t, l, bucket_ptr)
           ELSE /\ loc' = [loc EXCEPT ![t] = l]
                /\ pc' = [pc EXCEPT ![t] = "it_next"]
                /\ res' = [res EXCEPT ![t] = NoRes]
    /\ UNCHANGED <<buckets, entries, collisions, permutation, heap, freed, okRet>>
    /\ Track(t, "iter", NoKey)

\* next() when the loop condition is false: None (also on every later call)
IterNextEnd(t) ==
    /\ pc[t] \in {"it_next", "it_done"}
    /\ ~IterInLoop(t)
    /\ res' = [res EXCEPT ![t] = None]
    /\ pc' = [pc EXCEPT ![t] = "it_done"]
    /\ UNCHANGED <<buckets, entries, collisions, permutation, heap, freed, loc, okRet>>
    /\ Track(t, "iter", NoKey)

\* the caller lets go of the exhausted iterator
IterDrop(t) ==
    /\ pc[t] = "it_done"
    /\ pc' = [pc EXCEPT ![t] = "idle"]
    /\ loc' = [loc EXCEPT ![t] = NoLoc]
    /\ res' = [res EXCEPT ![t] = NoRes]
    /\ UNCHANGED <<buckets, entries, collisions, permutation, heap, freed, okRet>>
    /\ Track(t, "iter", NoKey)

ChInit ==
    /\ buckets = [i \in 0..(N - 1) |-> empty]
    /\ entries = 0
    /\ collisions = 0
    /\ permutation = <<>>
    /\ heap = <<>>
    /\ freed = {}
    /\ pc = [t \in Threads |-> "idle"]
    /\ loc = [t \in Threads |-> NoLoc]
    /\ res = [t \in Threads |-> NoRes]
    /\ okRet = {}
    /\ gh = [t \in Threads |-> NoGh]

\* the chaining table under concurrent insert and lookup
Next ==
    \E t \in Threads :
        \/ \E key \in Keys : ChInsert(t, key)
        \/ ChIncHead(t)
        \/ ChLoadNext(t)
        \/ ChLoadInner(t)
        \/ ChCasNext(t)
        \/ ChIncTail(t)
        \/ ChIncColl(t)
        \/ \E key \in Keys : ChLookup(t, key)
        \/ ChLookupNext(t)
        \/ Return(t)

Spec == ChInit /\ [][Next]_vars

\* the steps with which thread t goes on with the call it is running
ChRun(t) ==
    \/ ChIncHead(t)
    \/ ChLoadNext(t)
    \/ ChLoadInner(t)
    \/ ChCasNext(t)
    \/ ChIncTail(t)
    \/ ChIncColl(t)
    \/ ChLookupNext(t)

\* the chaining table when every thread keeps taking the steps of its call.  A
\* step of a thread is disabled only while a result that was returned is being
\* received (Return), which always happens, hence strong fairness for the steps
\* that the thread itself is always ready to take.
SpecFair ==
    /\ ChInit
    /\ [][Next]_vars
    /\ \A t \in Threads : SF_vars(ChRun(t)) /\ WF_vars(Return(t))

\* the keys of the iteration model: those of Keys and a second one for the
\* first bucket
IterKeys == Keys \cup {N}

\* the chaining table under concurrent insert and iteration
NextIter ==
    \E t \in Threads :
        \/ \E key \in IterKeys : ChInsert(t, key)
        \/ ChIncHead(t)
        \/ ChLoadNext(t)
        \/ ChLoadInner(t)
        \/ ChCasNext(t)
        \/ ChIncTail(t)
        \/ ChIncColl(t)
        \/ ChIter(t)
        \/ IterNextChain(t)
        \/ IterNextBucket(t)
        \/ IterNextEnd(t)
        \/ IterDrop(t)
        \/ Return(t)

SpecIter == ChInit /\ [][NextIter]_vars

\* the chaining table filled beyond N entries
NextFill ==
    \E t \in Threads :
        \/ \E key \in FillKeys : ChInsertFill(t, key)
        \/ ChIncHead(t)
        \/ ChLoadNext(t)
        \/ ChLoadInner(t)
        \/ ChCasNext(t)
        \/ ChIncTail(t)
        \/ ChIncColl(t)
        \/ Return(t)

SpecFill == ChInit /\ [][NextFill]_vars

------------------------------------------------------------------------------
\* Teardown of the chaining table (Drop).  drop takes &mut self: it starts when
\* no call is running and nothing uses the table afterwards.  The thread that
\* drops keeps idx in loc.idx, ptr in loc.cur_entry_ptr and boxed_ptr in
\* loc.cur_entry.

\* a thread is dropping the table or has dropped it
Dropping == \E t \in Threads : pc[t] \in {"dr_load", "dr_next", "dr_free", "dropped"}

\* drop is entered: for idx in 0..N
ChDrop(t) ==
    /\ \A u \in Threads : pc[u] = "idle"
    /\ pc' = [pc EXCEPT ![t] = IF Capacity > 0 THEN "dr_load" ELSE "dropped"]
    /\ loc' = [loc EXCEPT ![t] = [NoLoc EXCEPT !.op = "drop"]]
    /\ res' = [res EXCEPT ![t] = NoRes]
    /\ UNCHANGED <<buckets, entries, collisions, permutation, heap, freed, okRet>>
    /\ Track(t, "drop", NoKey)

\* the chain of bucket idx is done: the next idx of the for loop, or the end
DropAdvance(t, l) ==
    IF l.idx + 1 < Capacity
    THEN /\ loc' = [loc EXCEPT ![t] = [l EXCEPT !.idx = @ + 1]]
         /\ pc' = [pc EXCEPT ![t] = "dr_load"]
    ELSE /\ loc' = [loc EXCEPT ![t] = l]
         /\ pc' = [pc EXCEPT ![t] = "dropped"]

\* let mut ptr = self.buckets[idx].load(); while !ptr.is_null() ...
ChDropLoadBucket(t) ==
    /\ pc[t] = "dr_load"
    /\ LET l == [loc[t] EXCEPT !.cur_entry_ptr = buckets[loc[t].idx]]
       IN  IF l.cur_entry_ptr # empty
           THEN /\ loc' = [loc EXCEPT ![t] = l]
                /\ pc' = [pc EXCEPT ![t] = "dr_next"]
           ELSE DropAdvance(t, l)
    /\ UNCHANGED <<buckets, entries, collisions, permutation, heap, freed, res, okRet>>
    /\ Track(t, "drop", NoKey)

\* Faulty variant: ptr is left on the node that is about to be released
ChDropLoadNextStay(t) ==
    /\ pc[t] = "dr_next"
    /\ loc' = [loc EXCEPT ![t].cur_entry = loc[t].cur_entry_ptr]
    /\ pc' = [pc EXCEPT ![t] = "dr_free"]
    /\ UNCHANGED <<buckets, entries, collisions, permutation, heap, freed, res, okRet>>
    /\ Track(t, "drop", NoKey)

\* let boxed_ptr = Box::from_raw(ptr); ptr = boxed_ptr.next.load()
ChDropLoadNext(t) ==
    /\ pc[t] = "dr_next"
    /\ loc' = [loc EXCEPT ![t].cur_entry = loc[t].cur_entry_ptr,
                          ![t].cur_entry_ptr = heap[loc[t].cur_entry_ptr].next]
    /\ pc' = [pc EXCEPT ![t] = "dr_free"]
    /\ UNCHANGED <<buckets, entries, collisions, permutation, heap, freed, res, okRet>>
    /\ Track(t, "drop", NoKey)

\* drop(boxed_ptr); then the while test on ptr
ChDropFree(t) ==
    /\ pc[t] = "dr_free"
    /\ freed' = freed \cup {loc[t].cur_entry}
    /\ IF loc[t].cur_entry_ptr # empty
       THEN /\ pc' = [pc EXCEPT ![t] = "dr_next"]
            /\ UNCHANGED loc
       ELSE DropAdvance(t, loc[t])
    /\ UNCHANGED <<buckets, entries, collisions, permutation, heap, res, okRet>>
    /\ Track(t, "drop", NoKey)

\* the chaining table under concurrent inserts, dropped at some point when no
\* call is running
NextDrop ==
    \E t \in Threads :
        \/ ~Dropping /\ \E key \in Keys : ChInsert(t, key)
        \/ ChIncHead(t)
        \/ ChLoadNext(t)
        \/ ChLoadInner(t)
        \/ ChCasNext(t)
        \/ ChIncTail(t)
        \/ ChIncColl(t)
        \/ Return(t)
        \/ ~Dropping /\ ChDrop(t)
        \/ ChDropLoadBucket(t)
        \/ ChDropLoadNext(t)
        \/ ChDropFree(t)

SpecDrop == ChInit /\ [][NextDrop]_vars

------------------------------------------------------------------------------
\* xorshift::Rng.  A usize is a vector of UsizeBits bits, b[1] the lowest.

UsizeBits == 64

\* bit i of a number below 2^31
BitOf(n, i) == IF i > 31 THEN 0 ELSE (n \div 2 ^ (i - 1)) % 2

\* the usize with value n (SubSeq makes the sequence of a function)
Usize(n) == SubSeq([i \in 1..UsizeBits |-> BitOf(n, i)], 1, UsizeBits)

\* a << k, a >> k and a ^ b on usize
Shl(a, k) == SubSeq([i \in 1..UsizeBits |-> IF i > k THEN a[i - k] ELSE 0], 1, UsizeBits)
Shr(a, k) ==
    SubSeq([i \in 1..UsizeBits |-> IF i + k <= UsizeBits THEN a[i + k] ELSE 0], 1, UsizeBits)
Xor(a, b) == SubSeq([i \in 1..UsizeBits |-> (a[i] + b[i]) % 2], 1, UsizeBits)

\* 2^e % top
RECURSIVE Pow2Mod(_, _)
Pow2Mod(e, top) ==
    IF e = 0 THEN 1 % top
    ELSE IF e % 2 = 0
         THEN (Pow2Mod(e \div 2, top) * Pow2Mod(e \div 2, top)) % top
         ELSE (2 * Pow2Mod(e - 1, top)) % top

\* the number made of the bits lo..hi of a, % top
RECURSIVE ModBits(_, _, _, _)
ModBits(a, lo, hi, top) ==
    IF lo = hi THEN a[lo] % top
    ELSE LET mid == (lo + hi) \div 2
         IN  (ModBits(a, lo, mid, top)
              + Pow2Mod(mid + 1 - lo, top) * ModBits(a, mid + 1, hi, top)) % top

\* a % top
Mod(a, top) == ModBits(a, 1, UsizeBits, top)

\* Rng::new
RngNew(seed) == [state |-> seed, iter |-> 0]

\* Rng::rand: the generator after the call (the value returned is its state)
Rand(rng) ==
    LET s1 == Xor(rng.state, Shl(rng.state, 13))
        s2 == Xor(s1, Shr(s1, 17))
        s3 == Xor(s2, Shl(s2, 5))
    IN  [state |-> s3, iter |-> rng.iter + 1]

\* Rng::get_random: [rng |-> the generator after the call, val |-> rand() % top]
GetRandom(rng, top) ==
    LET r == Rand(rng) IN [rng |-> r, val |-> Mod(r.state, top)]

------------------------------------------------------------------------------
\* Open-addressing variant (atomic_hashmap)

\* Faulty variant: the swap loses the element at index j
SwapOverwrite(slice, i, j) == [slice EXCEPT ![j] = slice[i]]

\* slice.swap(i, j)
Swap(slice, i, j) == [slice EXCEPT ![i] = slice[j], ![j] = slice[i]]

\* scramble, from index i down to 1: j = rng.get_random(i); slice.swap(i, j)
RECURSIVE Scramble(_, _, _)
Scramble(rng, slice, i) ==
    IF i < 1 THEN slice
    ELSE LET g == GetRandom(rng, i)
         IN  Scramble(g.rng, Swap(slice, i, g.val), i - 1)

\* the permutation table new_with_seed(seed) makes for a table of n buckets
PermutationTable(n, seed) == Scramble(RngNew(seed), [i \in 0..(n - 1) |-> i], n - 1)

\* the permutation table of new_with_seed(seed)
NewWithSeed(seed) == PermutationTable(N, seed)

\* the seed of the tests
Seeds == {12311}

\* the keys of the open-addressing model: those below 2 * N
OaKeys == {key \in Keys : key < 2 * N}

\* bound on the insert calls of the open-addressing model
OaMaxAllocs == 5

\* self.permutation[key & (N - 1)]
OaGetIdx(key) == permutation[BitAnd(key, Capacity - 1)]

\* Faulty variant: the probe steps over a bucket
OaNextIdxSkip(idx) == BitAnd(idx + 2, Capacity - 1)

\* (idx + 1) & (N - 1)
OaNextIdx(idx) == BitAnd(idx + 1, Capacity - 1)

\* a call of thread t returns r
OaReturn(t, r) ==
    /\ res' = [res EXCEPT ![t] = r]
    /\ pc' = [pc EXCEPT ![t] = "ret"]
    /\ loc' = [loc EXCEPT ![t] = NoLoc]

\* insert, up to the compare_exchange on the starting bucket and, when that
\* fails, bucket.load() and the test of the occupant's key
OaInsert(t, key) ==
    /\ pc[t] = "idle"
    /\ Len(heap) < OaMaxAllocs
    /\ LET new == Len(heap) + 1
           start_idx == OaGetIdx(key)
           cur == buckets[start_idx]
           l == [NoLoc EXCEPT !.op = "insert", !.key = key, !.new_entry_ptr = new,
                              !.start_idx = start_idx, !.idx = start_idx]
       IN  /\ heap' = Append(heap, NewEntry(key))
           /\ IF cur = empty
              THEN /\ buckets' = [buckets EXCEPT ![start_idx] = new]
                   /\ loc' = [loc EXCEPT ![t] = l]
                   /\ pc' = [pc EXCEPT ![t] = "inc_first"]
                   /\ res' = [res EXCEPT ![t] = NoRes]
                   /\ UNCHANGED okRet
              ELSE /\ UNCHANGED <<buckets, okRet>>
                   /\ IF heap[cur].key = key
                      THEN OaReturn(t, ExistentEntry(cur))
                      ELSE /\ loc' = [loc EXCEPT ![t] = l]
                           /\ pc' = [pc EXCEPT ![t] = "probe"]
                           /\ res' = [res EXCEPT ![t] = NoRes]
    /\ UNCHANGED <<entries, collisions, permutation, freed>>
    /\ Track(t, "insert", key)

\* Faulty variant: the entry placed in the starting bucket is not counted
OaIncFirstSkip(t) ==
    /\ pc[t] = "inc_first"
    /\ OaReturn(t, Ok(loc[t].new_entry_ptr))
    /\ okRet' = okRet \cup {loc[t].new_entry_ptr}
    /\ UNCHANGED <<buckets, entries, collisions, permutation, heap, freed>>
    /\ Track(t, "insert", NoKey)

\* self.entries.fetch_add(1); return Ok(&(*new_entry_ptr).val)   (starting bucket)
OaIncFirst(t) ==
    /\ pc[t] = "inc_first"
    /\ entries' = entries + 1
    /\ OaReturn(t, Ok(loc[t].new_entry_ptr))
    /\ okRet' = okRet \cup {loc[t].new_entry_ptr}
    /\ UNCHANGED <<buckets, collisions, permutation, heap, freed>>
    /\ Track(t, "insert", NoKey)

\* top of the probe loop: idx = (idx + 1) & (N - 1); HashMapFull on a wrap to start_idx
OaProbe(t) ==
    /\ pc[t] = "probe"
    /\ LET idx == OaNextIdx(loc[t].idx)
       IN  IF idx = loc[t].start_idx
           THEN OaReturn(t, HashMapFull)
           ELSE /\ loc' = [loc EXCEPT ![t].idx = idx]
                /\ pc' = [pc EXCEPT ![t] = "while_load"]
                /\ UNCHANGED res
    /\ UNCHANGED <<buckets, entries, collisions, permutation, heap, freed, okRet>>
    /\ Track(t, "insert", NoKey)

\* while bucket.load() != empty { idx = (idx + 1) & (N - 1); ...
OaWhileLoad(t) ==
    /\ pc[t] = "while_load"
    /\ IF buckets[loc[t].idx] # empty
       THEN /\ loc' = [loc EXCEPT ![t].idx = OaNextIdx(loc[t].idx)]
            /\ pc' = [pc EXCEPT ![t] = "check_full"]
       ELSE /\ pc' = [pc EXCEPT ![t] = "cas_probe"]
            /\ UNCHANGED loc
    /\ UNCHANGED <<buckets, entries, collisions, permutation, heap, freed, res, okRet>>
    /\ Track(t, "insert", NoKey)

\* Faulty variant: the table is taken to be full one entry early
OaTableFullEarly(n) == n >= Capacity - 1

\* the test that makes the probe loop fail fast
OaTableFull(n) == n = Capacity

\* ... if self.entries.load() == N { return Err(HashMapFull) } }
OaCheckFull(t) ==
    /\ pc[t] = "check_full"
    /\ IF OaTableFull(entries)
       THEN OaReturn(t, HashMapFull)
       ELSE /\ pc' = [pc EXCEPT ![t] = "while_load"]
            /\ UNCHANGED <<loc, res>>
    /\ UNCHANGED <<buckets, entries, collisions, permutation, heap, freed, okRet>>
    /\ Track(t, "insert", NoKey)

\* Faulty variant: the bucket found is stored to without comparing it with null
OaCasProbeStore(t) ==
    /\ pc[t] = "cas_probe"
    /\ buckets' = [buckets EXCEPT ![loc[t].idx] = loc[t].new_entry_ptr]
    /\ pc' = [pc EXCEPT ![t] = "inc_probe"]
    /\ UNCHANGED <<entries, collisions, permutation, heap, freed, loc, res, okRet>>
    /\ Track(t, "insert", NoKey)

\* bucket.compare_exchange(empty, new_entry_ptr) on the empty bucket found
OaCasProbe(t) ==
    /\ pc[t] = "cas_probe"
    /\ IF buckets[loc[t].idx] = empty
       THEN /\ buckets' = [buckets EXCEPT ![loc[t].idx] = loc[t].new_entry_ptr]
            /\ pc' = [pc EXCEPT ![t] = "inc_probe"]
       ELSE /\ pc' = [pc EXCEPT ![t] = "probe"]
            /\ UNCHANGED buckets
    /\ UNCHANGED <<entries, collisions, permutation, heap, freed, loc, res, okRet>>
    /\ Track(t, "insert", NoKey)

\* self.entries.fetch_add(1); return Ok(&(*new_entry_ptr).val)   (probed bucket)
OaIncProbe(t) ==
    /\ pc[t] = "inc_probe"
    /\ entries' = entries + 1
    /\ OaReturn(t, Ok(loc[t].new_entry_ptr))
    /\ okRet' = okRet \cup {loc[t].new_entry_ptr}
    /\ UNCHANGED <<buckets, collisions, permutation, heap, freed>>
    /\ Track(t, "insert", NoKey)

\* Faulty variant: the round goes on to the next index without the test for a
\* wrap to start_idx
OaLookupAtNoWrap(t, key, start_idx, idx) ==
    LET entry_ptr == buckets[idx]
    IN  IF entry_ptr = empty
        THEN OaReturn(t, None)
        ELSE IF heap[entry_ptr].key = key
             THEN OaReturn(t, Some(entry_ptr))
             ELSE /\ loc' = [loc EXCEPT ![t] =
                               [NoLoc EXCEPT !.op = "lookup", !.key = key,
                                             !.start_idx = start_idx,
                                             !.idx = BitAnd(idx + 1, Capacity - 1)]]
                  /\ pc' = [pc EXCEPT ![t] = "lk_next"]
                  /\ res' = [res EXCEPT ![t] = NoRes]

\* one round of the lookup loop: bucket.load(); None at a null bucket, Some at
\* a matching key, otherwise the next index, None on a wrap to start_idx
OaLookupAt(t, key, start_idx, idx) ==
    LET entry_ptr == buckets[idx]
    IN  IF entry_ptr = empty
        THEN OaReturn(t, None)
        ELSE IF heap[entry_ptr].key = key
             THEN OaReturn(t, Some(entry_ptr))
             ELSE IF OaNextIdx(idx) = start_idx
                  THEN OaReturn(t, None)
                  ELSE /\ loc' = [loc EXCEPT ![t] =
                                    [NoLoc EXCEPT !.op = "lookup", !.key = key,
                                                  !.start_idx = start_idx,
                                                  !.idx = OaNextIdx(idx)]]
                       /\ pc' = [pc EXCEPT ![t] = "lk_next"]
                       /\ res' = [res EXCEPT ![t] = NoRes]

\* lookup: the first round, at the starting index
OaLookup(t, key) ==
    /\ pc[t] = "idle"
    /\ OaLookupAt(t, key, OaGetIdx(key), OaGetIdx(key))
    /\ UNCHANGED <<buckets, entries, collisions, permutation, heap, freed, okRet>>
    /\ Track(t, "lookup", key)

\* lookup: a later round
OaLookupNext(t) ==
    /\ pc[t] = "lk_next"
    /\ OaLookupAt(t, loc[t].key, loc[t].start_idx, loc[t].idx)
    /\ UNCHANGED <<buckets, entries, collisions, permutation, heap, freed, okRet>>
    /\ Track(t, "lookup", NoKey)

\* new_with_seed
OaInit ==
    /\ \E seed \in Seeds : permutation = NewWithSeed(Usize(seed))
    /\ buckets = [i \in 0..(N - 1) |-> empty]
    /\ entries = 0
    /\ collisions = 0
    /\ heap = <<>>
    /\ freed = {}
    /\ pc = [t \in Threads |-> "idle"]
    /\ loc = [t \in Threads |-> NoLoc]
    /\ res = [t \in Threads |-> NoRes]
    /\ okRet = {}
    /\ gh = [t \in Threads |-> NoGh]

\* the open-addressing table under concurrent insert and lookup
NextOA ==
    \E t \in Threads :
        \/ \E key \in OaKeys : OaInsert(t, key)
        \/ OaIncFirst(t)
        \/ OaProbe(t)
        \/ OaWhileLoad(t)
        \/ OaCheckFull(t)
        \/ OaCasProbe(t)
        \/ OaIncProbe(t)
        \/ \E key \in OaKeys : OaLookup(t, key)
        \/ OaLookupNext(t)
        \/ Return(t)

SpecOA == OaInit /\ [][NextOA]_vars

\* the steps with which thread t goes on with the call it is running
OaRun(t) ==
    \/ OaIncFirst(t)
    \/ OaProbe(t)
    \/ OaWhileLoad(t)
    \/ OaCheckFull(t)
    \/ OaCasProbe(t)
    \/ OaIncProbe(t)
    \/ OaLookupNext(t)

\* the open-addressing table when thread 1 keeps taking the steps of its call
\* and every other thread may stop at any point of its own call.  A step of
\* thread 1 is disabled only while a result that was returned is being received
\* (Return), which always happens, hence strong fairness for the steps that the
\* thread itself is always ready to take.
SpecOAFair ==
    /\ OaInit
    /\ [][NextOA]_vars
    /\ SF_vars(OaRun(1))
    /\ \A t \in Threads : WF_vars(Return(t))

------------------------------------------------------------------------------
\* Either variant: a table is one or the other from its construction on (the
\* chaining table has no permutation)

IsChaining == permutation = <<>>

InitBoth == ChInit \/ OaInit

NextBoth ==
    \/ IsChaining /\ Next
    \/ ~IsChaining /\ NextOA

SpecBoth == InitBoth /\ [][NextBoth]_vars

------------------------------------------------------------------------------
\* Construction with any capacity.  HashMap::<V, N>::new() and new_with_seed()
\* take N as a const parameter and run the same code for every N.

\* bound on the capacities and the keys tried
MaxCap == 6
Capacities == 1..MaxCap
CapKeys == 0..(MaxCap - 1)

\* HashMap::new() of the chaining variant with N = n
ChNew(n) ==
    /\ buckets = [i \in 0..(n - 1) |-> empty]
    /\ entries = 0
    /\ collisions = 0
    /\ permutation = <<>>

\* HashMap::new_with_seed(seed) of the open-addressing variant with N = n
OaNewWithSeed(n, seed) ==
    /\ permutation = PermutationTable(n, Usize(seed))
    /\ entries = 0
    /\ buckets = [i \in 0..(n - 1) |-> empty]
    /\ collisions = 0

InitCap ==
    /\ \E n \in Capacities : ChNew(n) \/ \E seed \in Seeds : OaNewWithSeed(n, seed)
    /\ heap = <<>>
    /\ freed = {}
    /\ pc = [t \in Threads |-> "idle"]
    /\ loc = [t \in Threads |-> NoLoc]
    /\ res = [t \in Threads |-> NoRes]
    /\ okRet = {}
    /\ gh = [t \in Threads |-> NoGh]

\* one caller uses the table that was constructed
NextCap ==
    \E t \in {1} :
        \/ IsChaining /\ \E key \in CapKeys : ChInsert(t, key)
        \/ IsChaining /\ ChIncHead(t)
        \/ IsChaining /\ ChLoadNext(t)
        \/ IsChaining /\ ChLoadInner(t)
        \/ IsChaining /\ ChCasNext(t)
        \/ IsChaining /\ ChIncTail(t)
        \/ IsChaining /\ ChIncColl(t)
        \/ IsChaining /\ \E key \in CapKeys : ChLookup(t, key)
        \/ IsChaining /\ ChLookupNext(t)
        \/ ~IsChaining /\ \E key \in CapKeys : OaInsert(t, key)
        \/ ~IsChaining /\ OaIncFirst(t)
        \/ ~IsChaining /\ OaProbe(t)
        \/ ~IsChaining /\ OaWhileLoad(t)
        \/ ~IsChaining /\ OaCheckFull(t)
        \/ ~IsChaining /\ OaCasProbe(t)
        \/ ~IsChaining /\ OaIncProbe(t)
        \/ ~IsChaining /\ \E key \in CapKeys : OaLookup(t, key)
        \/ ~IsChaining /\ OaLookupNext(t)
        \/ Return(t)

SpecCap == InitCap /\ [][NextCap]_vars

------------------------------------------------------------------------------
\* Properties of the chaining variant

\* the returned call of thread t, if any, is a call of op
Returned(t, op) == pc[t] = "ret" /\ gh[t].op = op

\* the entry at the head of its bucket
IsHead(p) == \E i \in 0..(N - 1) : buckets[i] = p

\* C1: concurrent inserts of one key: at most one returns Ok, the others return
\* ExistentEntry with the value of the entry that was linked; no two reachable
\* entries share a key; at quiescence every key some insert was called with has
\* exactly one insert that returned Ok.
ChUniqueInsert ==
    /\ \A p, q \in Reachable : heap[p].key = heap[q].key => p = q
    /\ \A p, q \in okRet : heap[p].key = heap[q].key => p = q
    /\ \A t \in Threads : Returned(t, "insert") =>
          /\ res[t].kind \in {"Ok", "ExistentEntry"}
          /\ res[t].kind = "ExistentEntry" =>
                \E p \in Reachable : /\ heap[p].key = gh[t].key
                                     /\ heap[p].val = res[t].val
    /\ Quiescent => \A p \in 1..Len(heap) : \E q \in okRet : heap[q].key = heap[p].key

\* two inserts of a key that was not in the table raced for a place in a chain:
\* one returned Ok, this one returns ExistentEntry with the winner's value
ChUniqueInsertWitness ==
    \E t \in Threads :
        /\ Returned(t, "insert")
        /\ res[t].kind = "ExistentEntry"
        /\ ~gh[t].solo
        /\ ~gh[t].present
        /\ res[t].val \in OkVals(gh[t].key)
        /\ \E p \in Reachable : heap[p].key = gh[t].key /\ ~IsHead(p)

\* C3: a lookup(k) that starts after insert(k, v) returned Ok returns Some(v)
ChLookupFindsInserted ==
    \A t \in Threads : Returned(t, "lookup") =>
        \A v \in gh[t].expect : res[t] = [kind |-> "Some", val |-> v]

\* a lookup that ran while another thread took steps found a key stored deeper
\* in a chain, inserted with Ok before the lookup started
ChLookupFindsInsertedWitness ==
    \E t \in Threads :
        /\ Returned(t, "lookup")
        /\ gh[t].expect # {}
        /\ ~gh[t].solo
        /\ res[t].kind = "Some"
        /\ \E p \in Reachable : heap[p].val = res[t].val /\ ~IsHead(p)

\* C6: an insert that returns ExistentEntry reports the value of the stored
\* entry of its key and none of its steps changes a bucket, a next link of a
\* reachable entry, entries or collisions
ChRejectedInsertChangesNothing ==
    \A t \in Threads : Returned(t, "insert") /\ res[t].kind = "ExistentEntry" =>
        /\ ~gh[t].dirty
        /\ \E p \in Reachable : heap[p].key = gh[t].key /\ heap[p].val = res[t].val

\* an insert of a key stored deeper in a chain is rejected for the second time
ChRejectedInsertWitness ==
    \E t \in Threads :
        /\ Returned(t, "insert")
        /\ res[t].kind = "ExistentEntry"
        /\ \E p \in Reachable : heap[p].key = gh[t].key /\ ~IsHead(p)
        /\ Cardinality({p \in freed : heap[p].key = gh[t].key}) >= 2

\* C7: entries() never exceeds the number of reachable entries and never
\* decreases; at quiescence it equals the number of reachable entries, which is
\* the number of distinct keys for which an insert returned Ok
ChEntriesCount ==
    /\ [](/\ entries <= Cardinality(Reachable)
          /\ Quiescent =>
                /\ entries = Cardinality(Reachable)
                /\ entries = Cardinality({heap[p].key : p \in okRet}))
    /\ [][entries' >= entries]_vars

\* quiescent after threads raced to insert the same keys: three entries are
\* stored and an insert was rejected
ChEntriesCountWitness ==
    /\ Quiescent
    /\ entries = 3
    /\ freed # {}
    /\ \E t \in Threads : Returned(t, "insert") /\ ~gh[t].solo

\* C8: an iterator run to exhaustion while no other thread takes a step yields
\* entries() pairs, one for every reachable entry
IterYieldsAllEntries ==
    \A t \in Threads : pc[t] = "it_done" /\ gh[t].solo =>
        /\ Len(loc[t].yielded) = entries
        /\ Range(loc[t].yielded) = Reachable

------------------------------------------------------------------------------
\* Properties of the open-addressing variant

\* the buckets that hold an entry
NonNull == {i \in 0..(N - 1) : buckets[i] # empty}

\* C2: concurrent inserts of one key: at most one bucket holds the key, at
\* most one insert of the key returns Ok, and an insert that returns
\* ExistentEntry carries the value of the bucket that holds the key
OaUniqueInsert ==
    /\ \A i, j \in NonNull : heap[buckets[i]].key = heap[buckets[j]].key => i = j
    /\ \A p, q \in okRet : heap[p].key = heap[q].key => p = q
    /\ \A t \in Threads : Returned(t, "insert") /\ res[t].kind = "ExistentEntry" =>
          \E i \in NonNull : /\ heap[buckets[i]].key = gh[t].key
                             /\ heap[buckets[i]].val = res[t].val

\* C4: a lookup(k) that starts after insert(k, v) returned Ok returns Some(v),
\* for each such v
OaLookupFindsInserted ==
    \A t \in Threads : \A v \in gh[t].expect :
        Returned(t, "lookup") => res[t].kind = "Some" /\ res[t].val = v

\* C5: an insert that runs alone, of a key an insert had returned Ok for,
\* returns ExistentEntry with the value stored and changes nothing of the table
OaRejectsStoredKey ==
    \A t \in Threads :
        Returned(t, "insert") /\ gh[t].solo /\ gh[t].expect # {} =>
            /\ res[t].kind = "ExistentEntry"
            /\ res[t].val \in gh[t].expect
            /\ ~gh[t].dirty

\* C9: entries() never exceeds the number of non-null buckets, hence N, and
\* never decreases; at quiescence it is the number of non-null buckets; an
\* insert of a key not in the table that starts after N inserts have returned
\* Ok returns HashMapFull
OaEntriesCount ==
    /\ [](/\ entries <= Cardinality(NonNull)
          /\ entries <= N
          /\ Quiescent => entries = Cardinality(NonNull)
          /\ \A t \in Threads :
                Returned(t, "insert") /\ gh[t].okFull /\ ~gh[t].present =>
                    res[t].kind = "HashMapFull")
    /\ [][entries' >= entries]_vars

\* N inserts have returned Ok and an insert of a key that is not in the table
\* has returned HashMapFull
OaEntriesCountWitness ==
    \E t \in Threads :
        /\ Returned(t, "insert")
        /\ gh[t].okFull
        /\ ~gh[t].present
        /\ res[t].kind = "HashMapFull"
        /\ entries = N

\* C10: insert returns HashMapFull only when every bucket is non-null; an
\* insert that runs alone, of a key not in the table while a bucket is empty,
\* returns Ok
OaFullOnlyWhenFull ==
    \A t \in Threads : Returned(t, "insert") =>
        /\ res[t].kind = "HashMapFull" => NonNull = 0..(N - 1)
        /\ gh[t].solo /\ ~gh[t].present /\ gh[t].hadEmpty => res[t].kind = "Ok"

\* an insert that started while a bucket was empty lost the race for the last
\* empty bucket and returned HashMapFull
OaFullOnlyWhenFullWitness ==
    \E t \in Threads :
        /\ Returned(t, "insert")
        /\ res[t].kind = "HashMapFull"
        /\ gh[t].hadEmpty
        /\ ~gh[t].solo

\* an insert that ran alone placed a new key in a bucket found by probing
OaProbedInsertWitness ==
    \E t \in Threads :
        /\ Returned(t, "insert")
        /\ gh[t].solo /\ ~gh[t].present /\ gh[t].hadEmpty
        /\ res[t].kind = "Ok"
        /\ \E i \in NonNull : /\ heap[buckets[i]].val = res[t].val
                              /\ i # OaGetIdx(gh[t].key)

------------------------------------------------------------------------------
\* Further properties of the chaining variant

\* C11: insert never returns HashMapFull: it returns Ok, or ExistentEntry with
\* the value of an entry of its key that is in the table; an insert of a key
\* that is not in the table, running alone, returns Ok whatever the table holds
ChNeverFull ==
    \A t \in Threads : Returned(t, "insert") =>
        /\ res[t].kind \in {"Ok", "ExistentEntry"}
        /\ res[t].kind = "ExistentEntry" =>
              \E p \in Reachable : heap[p].key = gh[t].key /\ heap[p].val = res[t].val
        /\ gh[t].solo /\ ~gh[t].present => res[t].kind = "Ok"

\* an insert of a new key returned Ok when the table already held N entries or
\* more, its entry being the last of a chain of MaxChain entries
ChNeverFullWitness ==
    \E t \in Threads :
        /\ Returned(t, "insert")
        /\ res[t].kind = "Ok"
        /\ ~gh[t].present
        /\ entries > N
        /\ \E i \in 0..(N - 1) :
              /\ Len(Chain(buckets[i])) >= MaxChain
              /\ heap[Chain(buckets[i])[Len(Chain(buckets[i]))]].val = res[t].val

\* the entries linked behind another node
Chained == {p \in Reachable : ~IsHead(p)}

\* C12: collisions() never exceeds the number of entries linked behind a node;
\* at quiescence it is that number, which is entries() minus the number of
\* non-empty buckets; it changes only in the step with which an insert that
\* linked its entry behind a node returns Ok, so a rejected insert leaves it alone
ChCollisionsCount ==
    /\ [](/\ collisions <= Cardinality(Chained)
          /\ Quiescent =>
                /\ collisions = Cardinality(Chained)
                /\ collisions = entries - Cardinality({i \in 0..(N - 1) : buckets[i] # empty})
          /\ \A t \in Threads :
                Returned(t, "insert") /\ res[t].kind = "ExistentEntry" => ~gh[t].dirty)
    /\ [][collisions' # collisions =>
            /\ collisions' = collisions + 1
            /\ \E t \in Threads :
                  /\ pc[t] = "inc_coll"
                  /\ pc'[t] = "ret"
                  /\ res'[t].kind = "Ok"
                  /\ loc[t].new_entry_ptr \in Chained]_vars

\* quiescent with two bucket heads, one chained entry and an insert rejected
\* during a race
ChCollisionsCountWitness ==
    /\ Quiescent
    /\ collisions = 1
    /\ entries = 3
    /\ \E t \in Threads :
          Returned(t, "insert") /\ res[t].kind = "ExistentEntry" /\ ~gh[t].solo

------------------------------------------------------------------------------
\* Properties of both variants

\* C13: a lookup returns None or Some(v), v being the value of an entry of the
\* key looked up that is published (in a bucket or linked in a chain) and
\* allocated, hence initialised, and not freed; the nodes a lookup walks are
\* published entries too
LookupReturnsPublished ==
    \A t \in Threads :
        /\ Returned(t, "lookup") =>
              /\ res[t].kind \in {"Some", "None"}
              /\ res[t].kind = "Some" =>
                    \E p \in Reachable \ freed : /\ p \in 1..Len(heap)
                                                 /\ heap[p].key = gh[t].key
                                                 /\ heap[p].val = res[t].val
        /\ pc[t] = "lk_next" /\ IsChaining =>
              loc[t].cur_entry \in (Reachable \ freed) \cap 1..Len(heap)

\* a lookup found, in a chain, an entry that was published after the lookup had
\* started and whose insert had not returned yet
LookupReturnsPublishedWitness ==
    \E t \in Threads :
        /\ Returned(t, "lookup")
        /\ res[t].kind = "Some"
        /\ ~gh[t].solo
        /\ ~gh[t].present
        /\ \E p \in Chained \ okRet : heap[p].val = res[t].val

\* n is a power of two
IsPowerOfTwo(n) == n > 0 /\ BitAnd(n, n - 1) = 0

\* C14: no table is constructed with a capacity that is not a power of two, so
\* no insert ever returns Ok on such a table
NonPowerOfTwoRejected ==
    \A t \in Threads :
        Returned(t, "insert") /\ res[t].kind = "Ok" => IsPowerOfTwo(Capacity)

\* C15: the linking compare_exchange is applied to the node whose next was just
\* read as null, and an insert that runs alone never fails it
ChCasTargetsNodeReadNull ==
    /\ [](\A t \in Threads : pc[t] = "cas_next" => ChCasTarget(t) = loc[t].cur_entry_ptr)
    /\ [][\A t \in Threads :
            pc[t] = "cas_next" /\ pc'[t] = "load_next" => ~gh[t].solo]_vars

------------------------------------------------------------------------------
\* Further properties of the open-addressing variant

\* C16: an insert that keeps taking its steps returns, whatever the other
\* threads do or fail to do
OaInsertReturns == (loc[1].op = "insert") ~> (pc[1] = "ret")

\* C17: when no call is in flight every Entry that insert has allocated is held
\* by a bucket or has been freed (an insert that returns ExistentEntry or
\* HashMapFull has released its Entry)
OaErrorReleasesEntry ==
    Quiescent =>
        \A p \in 1..Len(heap) : p \in freed \/ \E i \in NonNull : buckets[i] = p

------------------------------------------------------------------------------
\* Ownership of the entries of the chaining variant

\* the entry allocated by the call thread t is running or starting
NewEntryOf(t) == IF pc[t] = "idle" THEN Len(heap) + 1 ELSE loc[t].new_entry_ptr

\* the step of thread t with which its insert returns ExistentEntry
RejectStep(t) == pc[t] # "ret" /\ pc'[t] = "ret" /\ res'[t].kind = "ExistentEntry"

\* C18: no entry is both freed and reachable; the entry of an insert that
\* returned Ok is reachable; the entry of a running insert is not freed and is
\* reachable only once its compare_exchange has succeeded; at quiescence every
\* entry is either reachable or freed; the set of freed entries changes only
\* when an insert returns ExistentEntry, by the entry of that call, which was
\* not freed before and is not reachable
ChEntryOwnership ==
    /\ [](/\ freed \cap Reachable = {}
          /\ okRet \subseteq Reachable
          /\ \A t \in Threads : loc[t].op = "insert" =>
                /\ loc[t].new_entry_ptr \notin freed
                /\ loc[t].new_entry_ptr \in Reachable
                       <=> pc[t] \in {"inc_head", "inc_tail", "inc_coll"}
          /\ Quiescent => \A p \in 1..Len(heap) : p \in freed \/ p \in Reachable)
    /\ [][/\ \A t \in Threads : RejectStep(t) =>
                /\ NewEntryOf(t) \notin freed
                /\ NewEntryOf(t) \notin Reachable'
                /\ freed' = freed \cup {NewEntryOf(t)}
          /\ freed' # freed => \E t \in Threads : RejectStep(t)]_vars

\* an insert that lost the race for the end of a chain walked to the winner's
\* entry and returned ExistentEntry; its own entry is freed, the winner's is linked
ChEntryOwnershipWitness ==
    \E t \in Threads :
        /\ Returned(t, "insert")
        /\ res[t].kind = "ExistentEntry"
        /\ ~gh[t].solo
        /\ ~gh[t].present
        /\ \E p \in freed : heap[p].key = gh[t].key
        /\ \E q \in Chained : heap[q].key = gh[t].key /\ heap[q].val = res[t].val

------------------------------------------------------------------------------
\* Progress of the chaining variant

\* every insert call returns
ChInsertReturns == \A t \in Threads : (loc[t].op = "insert") ~> (pc[t] = "ret")

\* C19: every insert call returns, and whenever an insert retries its link
\* step the node whose next it had read as null has been given a successor
\* (the chain has grown)
ChRetryOnlyAfterGrowth ==
    /\ ChInsertReturns
    /\ [][\A t \in Threads :
            pc[t] = "cas_next" /\ pc'[t] = "load_next" =>
                heap[loc[t].cur_entry_ptr].next # empty]_vars

------------------------------------------------------------------------------
\* Write-once structure of both variants

\* C20: no step changes a bucket that is non-null, a next link that is
\* non-null, or the key or the value of an entry; buckets and entries are
\* never taken away
WriteOnce ==
    [][/\ DOMAIN buckets' = DOMAIN buckets
       /\ \A i \in DOMAIN buckets : buckets[i] # empty => buckets'[i] = buckets[i]
       /\ Len(heap') >= Len(heap)
       /\ \A p \in 1..Len(heap) :
             /\ heap[p].next # empty => heap'[p].next = heap[p].next
             /\ heap'[p].key = heap[p].key
             /\ heap'[p].val = heap[p].val]_vars

\* open addressing: the compare_exchange of a probing insert has failed on a
\* bucket that another insert had filled in the meantime, and the bucket holds
\* that other entry
WriteOnceWitness ==
    \E t \in Threads :
        /\ ~IsChaining
        /\ pc[t] = "probe"
        /\ loc[t].idx # loc[t].start_idx
        /\ buckets[loc[t].idx] \notin {empty, loc[t].new_entry_ptr}

------------------------------------------------------------------------------
\* Properties of lookup in the open-addressing variant

\* thread t takes a step of a lookup call
LookupStep(t) ==
    /\ pc[t] \in {"idle", "lk_next"}
    /\ gh'[t].op = "lookup"
    /\ pc'[t] # pc[t] \/ loc'[t] # loc[t]

\* the number of increments (idx + 1) & (N - 1) that lead from index s to index i
ProbeDist(s, i) == (i + Capacity - s) % Capacity

\* C21: a lookup of the open-addressing variant inspects at most N buckets:
\* every round that goes on moves one bucket further from the starting index,
\* never back onto it.  A round that meets a null bucket returns None; a round
\* returns None at a non-null bucket only after a full wrap, when every bucket
\* is occupied and none holds the key; it returns Some only for the bucket
\* inspected, whose key is the requested key.
OaLookupBounded ==
    [][\A t \in Threads :
          (~IsChaining /\ LookupStep(t)) =>
              LET key == gh'[t].key
                  start_idx == IF pc[t] = "idle" THEN OaGetIdx(key) ELSE loc[t].start_idx
                  idx == IF pc[t] = "idle" THEN OaGetIdx(key) ELSE loc[t].idx
                  entry_ptr == buckets[idx]
              IN  /\ pc'[t] \in {"lk_next", "ret"}
                  /\ entry_ptr = empty => pc'[t] = "ret" /\ res'[t] = None
                  /\ pc'[t] = "lk_next" =>
                         /\ loc'[t].start_idx = start_idx
                         /\ ProbeDist(start_idx, loc'[t].idx) = ProbeDist(start_idx, idx) + 1
                         /\ ProbeDist(start_idx, loc'[t].idx) < Capacity
                  /\ pc'[t] = "ret" =>
                         \/ res'[t] = None /\ entry_ptr = empty
                         \/ /\ res'[t] = None
                            /\ ProbeDist(start_idx, idx) = Capacity - 1
                            /\ \A i \in 0..(Capacity - 1) :
                                   buckets[i] # empty /\ heap[buckets[i]].key # key
                         \/ /\ res'[t] = Some(entry_ptr)
                            /\ entry_ptr # empty
                            /\ heap[entry_ptr].key = key]_vars

\* a lookup returned None after a full wrap: every bucket is occupied
OaLookupBoundedWitness ==
    \E t \in Threads :
        /\ ~IsChaining
        /\ Returned(t, "lookup")
        /\ res[t] = None
        /\ \A i \in 0..(Capacity - 1) : buckets[i] # empty

\* the starting index of the key stored in bucket p
StartOf(p) == OaGetIdx(heap[buckets[p]].key)

\* C22: in every state of the open-addressing table, for every entry stored in
\* a bucket p, every bucket of the cyclic range from the starting index of its
\* key up to but excluding p is non-null: a probe path has no hole.
OaProbePathsNoHoles ==
    ~IsChaining =>
        \A p \in 0..(Capacity - 1) :
            buckets[p] # empty =>
                \A d \in 0..(ProbeDist(StartOf(p), p) - 1) :
                    buckets[(StartOf(p) + d) % Capacity] # empty

\* an entry was placed two or more buckets after its starting index, past the
\* end of the bucket array
OaProbePathsNoHolesWitness ==
    /\ ~IsChaining
    /\ \E p \in 0..(Capacity - 1) :
           /\ buckets[p] # empty
           /\ ProbeDist(StartOf(p), p) >= 2
           /\ p < StartOf(p)

------------------------------------------------------------------------------
\* Construction of the open-addressing table for several capacities and seeds

\* bounds on the seeds given to new_with_seed and on the insert calls
MaxSeed == 6
PermAllocs == 3

\* rng after k calls of rand()
RECURSIVE RandTimes(_, _)
RandTimes(rng, k) == IF k = 0 THEN rng ELSE RandTimes(Rand(rng), k - 1)

\* the seed HashMap::new() passes on: Rng::new(1), rand() for _ in 1..10, then
\* the value of one more rand()
NewSeed == RandTimes(RngNew(Usize(1)), (10 - 1) + 1).state

\* the seeds tried: those of new(), of the tests, and the small ones
PermSeeds == {NewSeed} \cup {Usize(seed) : seed \in Seeds \cup 0..MaxSeed}

InitPerm ==
    /\ \E n \in Capacities : \E seed \in PermSeeds :
           /\ permutation = PermutationTable(n, seed)
           /\ entries = 0
           /\ buckets = [i \in 0..(n - 1) |-> empty]
           /\ collisions = 0
    /\ heap = <<>>
    /\ freed = {}
    /\ pc = [t \in Threads |-> "idle"]
    /\ loc = [t \in Threads |-> NoLoc]
    /\ res = [t \in Threads |-> NoRes]
    /\ okRet = {}
    /\ gh = [t \in Threads |-> NoGh]

\* insert while the bound on the insert calls allows it
OaInsertPerm(t, key) == Len(heap) < PermAllocs /\ OaInsert(t, key)

\* one caller uses the table that was constructed
NextPerm ==
    \E t \in {1} :
        \/ \E key \in CapKeys : OaInsertPerm(t, key)
        \/ OaIncFirst(t)
        \/ OaProbe(t)
        \/ OaWhileLoad(t)
        \/ OaCheckFull(t)
        \/ OaCasProbe(t)
        \/ OaIncProbe(t)
        \/ \E key \in CapKeys : OaLookup(t, key)
        \/ OaLookupNext(t)
        \/ Return(t)

SpecPerm == InitPerm /\ [][NextPerm]_vars

\* C23: for every seed and every N the permutation table built at construction
\* is a bijection on [0, N): it has the N indices 0..N-1 and each of them
\* appears in it exactly once; get_idx maps every key to an index in [0, N).
PermutationIsBijection ==
    /\ DOMAIN permutation = 0..(Capacity - 1)
    /\ \A v \in 0..(Capacity - 1) :
           Cardinality({i \in DOMAIN permutation : permutation[i] = v}) = 1
    /\ \A key \in CapKeys : OaGetIdx(key) \in 0..(Capacity - 1)

\* a table of the largest capacity, whose permutation moves index 0, holds an
\* entry in the bucket that get_idx gave for its key
PermutationIsBijectionWitness ==
    /\ Capacity = MaxCap
    /\ permutation[0] # 0
    /\ \E p \in 0..(Capacity - 1) :
           buckets[p] # empty /\ StartOf(p) = p /\ buckets[p] \in okRet

\* the draws of scramble from index i down to 1: for each i the value rand()
\* returned and the j = rng.get_random(i) that slice.swap(i, j) used
RECURSIVE ScrambleDraws(_, _)
ScrambleDraws(rng, i) ==
    IF i < 1 THEN <<>>
    ELSE LET g == GetRandom(rng, i)
         IN  <<[i |-> i, j |-> g.val, rand |-> g.rng.state]>> \o ScrambleDraws(g.rng, i - 1)

\* C24: the construction shuffle draws, for each i from N-1 down to 1, the
\* index j = next_bounded(i + 1), the generator's value reduced modulo i + 1,
\* so that j ranges over 0..i inclusive: whatever capacity and seed made the
\* table of this state, every draw of its construction was made that way.
ShuffleDrawsInclusive ==
    \A n \in Capacities : \A seed \in PermSeeds :
        permutation = PermutationTable(n, seed) =>
            LET draws == ScrambleDraws(RngNew(seed), n - 1)
            IN  \A k \in DOMAIN draws : draws[k].j = Mod(draws[k].rand, draws[k].i + 1)

------------------------------------------------------------------------------
\* Properties of Iter and Drop in the chaining variant

\* the index of the bucket from which entry p is reachable
BucketOf(p) == CHOOSE i \in 0..(Capacity - 1) : p \in Range(Chain(buckets[i]))

\* C25: at every point of an iteration, under concurrent inserts, each entry
\* yielded so far is reachable from the bucket array and none was yielded
\* twice; of two entries yielded one after the other, the second is either the
\* node linked behind the first in its chain or the head of a bucket of higher
\* index, so buckets come in ascending order and chains from head to tail; and
\* once next() has returned None the loop condition stays false, so that every
\* later call returns None.
IterOrder ==
    \A t \in Threads :
        loc[t].op = "iter" =>
            LET yielded == loc[t].yielded
            IN  /\ \A k \in DOMAIN yielded : yielded[k] \in Reachable
                /\ \A k, m \in DOMAIN yielded : k # m => yielded[k] # yielded[m]
                /\ \A k \in 1..(Len(yielded) - 1) :
                       \/ yielded[k + 1] = heap[yielded[k]].next
                       \/ /\ IsHead(yielded[k + 1])
                          /\ BucketOf(yielded[k]) < BucketOf(yielded[k + 1])
                /\ pc[t] = "it_done" => res[t] = None /\ ~IterInLoop(t)

\* an iteration that ran while another thread was inserting has returned None
\* after yielding three entries or more, one of them from behind a head
IterOrderWitness ==
    \E t \in Threads :
        /\ loc[t].op = "iter"
        /\ pc[t] = "it_done"
        /\ ~gh[t].solo
        /\ Len(loc[t].yielded) >= 3
        /\ \E k \in 1..(Len(loc[t].yielded) - 1) :
               loc[t].yielded[k + 1] = heap[loc[t].yielded[k]].next

\* C26: teardown of the chaining table, run when no call is in flight: the
\* node whose next link is read has not been freed; the node released has not
\* been freed before, and ptr already holds its next link when it is released;
\* and when drop ends every entry reachable from the bucket array is freed.
DropFreesOnce ==
    [][\A t \in Threads :
          /\ (pc[t] = "dr_next" /\ pc'[t] = "dr_free") =>
                 loc[t].cur_entry_ptr \notin freed
          /\ (pc[t] = "dr_free" /\ pc'[t] # "dr_free") =>
                 /\ loc[t].cur_entry \notin freed
                 /\ freed' = freed \cup {loc[t].cur_entry}
                 /\ loc[t].cur_entry_ptr = heap[loc[t].cur_entry].next
          /\ (pc[t] # "dropped" /\ pc'[t] = "dropped") =>
                 Reachable \subseteq freed']_vars

\* a table with a chain behind a head, and an entry that a rejected insert had
\* already freed, has been dropped
DropFreesOnceWitness ==
    \E t \in Threads :
        /\ pc[t] = "dropped"
        /\ Cardinality(Reachable) >= 3
        /\ \E p \in Reachable : heap[p].next # empty
        /\ Reachable \subseteq freed
        /\ freed \ Reachable # {}

------------------------------------------------------------------------------
\* Lookup in either variant

\* the place of node p in the chain c
PosIn(c, p) == CHOOSE k \in DOMAIN c : c[k] = p

\* C27: in both variants every step of a lookup call leaves the buckets, the
\* next links (the whole heap), the permutation table, entries and collisions
\* unchanged and frees nothing; and a chaining lookup that goes on has just
\* visited a node of the chain of its key's bucket, the head in its first
\* step and after that the node linked behind the one visited before, so it
\* visits at most the nodes of that one chain.
LookupReadOnly ==
    [][\A t \in Threads :
          LookupStep(t) =>
              /\ buckets' = buckets
              /\ heap' = heap
              /\ permutation' = permutation
              /\ entries' = entries
              /\ collisions' = collisions
              /\ freed' = freed
              /\ (IsChaining /\ pc'[t] = "lk_next") =>
                     LET chain == Chain(buckets[ChGetIdx(gh'[t].key)])
                         visited == loc'[t].cur_entry
                     IN  /\ visited \in Range(chain)
                         /\ PosIn(chain, visited) =
                                IF pc[t] = "idle" THEN 1
                                ELSE PosIn(chain, loc[t].cur_entry) + 1]_vars

\* a chaining lookup that ran while another thread was inserting has returned
\* an entry from behind the head of a chain, and the table is as it was but for
\* what the other thread did
LookupReadOnlyWitness ==
    \E t \in Threads :
        /\ IsChaining
        /\ Returned(t, "lookup")
        /\ ~gh[t].solo
        /\ ~gh[t].dirty
        /\ \E p \in Chained : res[t] = Some(p) /\ heap[p].next # empty
====
